---- MODULE Spec2Model ----
(***************************************************************************)
(* A model of src/quad.rs: the axis-aligned bounding square (AABB), the    *)
(* four-slot Cardinal group and the Leaf/Node QuadTree with its insertion  *)
(* and breakup algorithm.                                                  *)
(*                                                                         *)
(* The numeric parameter N of the source is instantiated with a signed     *)
(* integer type: `self.w / two` is integer division truncating towards     *)
(* zero.  All values stay far from the type's limits, so no wrap-around    *)
(* is modelled.                                                            *)
(*                                                                         *)
(* Three specifications are defined over the same variables:               *)
(*   Spec     - a tree is built by QuadTree::new and insert is called      *)
(*              repeatedly; one step is one whole call of insert.          *)
(*   ScenSpec - the tree of testBasic, new(AABB(0,0,100), 4), receives     *)
(*              the test's points; hist records the order of the calls.    *)
(*   FnSpec   - the pure functions AABB::contains, AABB::split and         *)
(*              QuadTree::new are applied to inputs from bounded sets.     *)
(***************************************************************************)
EXTENDS Integers, Sequences, FiniteSets, TLC

----------------------------------------------------------------------------
(* Bounds of the model *)

\* largest side of a root region
MaxSide == 8
\* largest point coordinate offered to insert (points are 0..MaxCoord squared)
MaxCoord == 4
\* largest cutoff given to QuadTree::new
MaxCutoff == 2
\* number of insert calls made on one tree
MaxInserts == 3
\* origin of the root regions (both axes)
RootOrigin == 1

Coords == 0..MaxCoord
Points == [x : Coords, y : Coords]
\* QuadTree::new checks neither the side nor the cutoff it is given, so a
\* negative or zero side and a zero cutoff are among the inputs
RootBoxes == {[x |-> RootOrigin, y |-> RootOrigin, w |-> w] : w \in (-1)..MaxSide}
Cutoffs == 0..MaxCutoff

\* inputs of the pure-function specification
FnBoxes == [x : 0..1, y : 0..1, w : (-2)..(MaxSide + 1)]
FnPoints == [x : (-2)..(MaxCoord + 1), y : (-2)..(MaxCoord + 1)]

----------------------------------------------------------------------------
(* Cardinal<T> *)

Tags == {"nw", "ne", "sw", "se"}

\* Cardinal::new with the northern and southern slots exchanged
Cardinal_new_swapped(nw, ne, sw, se) == [nw |-> sw, ne |-> se, sw |-> nw, se |-> ne]

Cardinal_new(nw, ne, sw, se) == [nw |-> nw, ne |-> ne, sw |-> sw, se |-> se]

----------------------------------------------------------------------------
(* AABB<N> *)

AABB_new(x, y, w) == [x |-> x, y |-> y, w |-> w]

\* halving that rounds away from zero
HalfOf_round_up(w) == IF w >= 0 THEN (w + 1) \div 2 ELSE -((1 - w) \div 2)

\* self.w / two on a signed integer: truncation towards zero
HalfOf(w) == IF w >= 0 THEN w \div 2 ELSE -((-w) \div 2)

\* split whose north-east quadrant starts at the parent's y instead of y + wot
split_flat_ne(self) ==
    LET wot == HalfOf(self.w)
        sw == AABB_new(self.x,       self.y,       wot)
        nw == AABB_new(self.x,       self.y + wot, wot)
        se == AABB_new(self.x + wot, self.y,       wot)
        ne == AABB_new(self.x + wot, self.y,       wot)
    IN Cardinal_new(nw, ne, sw, se)

split(self) ==
    LET wot == HalfOf(self.w)
        sw == AABB_new(self.x,       self.y,       wot)
        nw == AABB_new(self.x,       self.y + wot, wot)
        se == AABB_new(self.x + wot, self.y,       wot)
        ne == AABB_new(self.x + wot, self.y + wot, wot)
    IN Cardinal_new(nw, ne, sw, se)

\* contains with the upper y test left out
AABB_contains_open_top(self, pt) ==
    LET px == pt.x
        py == pt.y
    IN IF px < self.x THEN FALSE
       ELSE IF py < self.y THEN FALSE
       ELSE IF px > self.x + self.w THEN FALSE
       ELSE TRUE

\* contains with the upper x edge excluded
AABB_contains_exclusive(self, pt) ==
    LET px == pt.x
        py == pt.y
    IN IF px < self.x THEN FALSE
       ELSE IF py < self.y THEN FALSE
       ELSE IF px >= self.x + self.w THEN FALSE
       ELSE IF py > self.y + self.w THEN FALSE
       ELSE TRUE

\* contains with the upper y edge excluded
AABB_contains_exclusive_y(self, pt) ==
    LET px == pt.x
        py == pt.y
    IN IF px < self.x THEN FALSE
       ELSE IF py < self.y THEN FALSE
       ELSE IF px > self.x + self.w THEN FALSE
       ELSE IF py >= self.y + self.w THEN FALSE
       ELSE TRUE

AABB_contains(self, pt) ==
    LET px == pt.x
        py == pt.y
    IN IF px < self.x THEN FALSE
       ELSE IF py < self.y THEN FALSE
       ELSE IF px > self.x + self.w THEN FALSE
       ELSE IF py > self.y + self.w THEN FALSE
       ELSE TRUE

----------------------------------------------------------------------------
(* QuadTree<N, P>: constructors *)

leaf_empty(bounding, cutoff) ==
    [kind |-> "Leaf", bounding |-> bounding, contents |-> << >>, cutoff |-> cutoff]

leaf(bounding, contents, cutoff) ==
    [kind |-> "Leaf", bounding |-> bounding, contents |-> contents, cutoff |-> cutoff]

node(bounding, children, cutoff) ==
    [kind |-> "Node", bounding |-> bounding, children |-> children, cutoff |-> cutoff]

\* QuadTree::new that hands the western quadrants to the wrong children
QuadTree_new_crossed(bounding, cutoff) ==
    LET sp == split(bounding)
    IN node(bounding, Cardinal_new(
                leaf_empty(sp.sw, cutoff),
                leaf_empty(sp.ne, cutoff),
                leaf_empty(sp.nw, cutoff),
                leaf_empty(sp.se, cutoff)), cutoff)

QuadTree_new(bounding, cutoff) ==
    LET sp == split(bounding)
    IN node(bounding, Cardinal_new(
                leaf_empty(sp.nw, cutoff),
                leaf_empty(sp.ne, cutoff),
                leaf_empty(sp.sw, cutoff),
                leaf_empty(sp.se, cutoff)), cutoff)

----------------------------------------------------------------------------
(* QuadTree<N, P>: contains, is_full, breakup, insert *)

\* contains whose Leaf arm answers true without testing the region
QuadTree_contains_lax(self, p) ==
    IF self.kind = "Leaf" THEN TRUE ELSE AABB_contains(self.bounding, p)

QuadTree_contains(self, p) == AABB_contains(self.bounding, p)

\* is_full that reports a Leaf full only once it holds more than cutoff
is_full_late(self) ==
    IF self.kind = "Node" THEN FALSE
    ELSE Len(self.contents) > self.cutoff

\* is_full that reports a Leaf full one point early
is_full_early(self) ==
    IF self.kind = "Node" THEN FALSE
    ELSE Len(self.contents) + 1 >= self.cutoff

\* is_full that reports an Interior full
is_full_node_true(self) ==
    IF self.kind = "Node" THEN TRUE
    ELSE Len(self.contents) = self.cutoff

is_full(self) ==
    IF self.kind = "Node" THEN FALSE
    ELSE Len(self.contents) = self.cutoff

\* The outcome of a call: the value left in the slot (t), the returned
\* boolean (ret) and how the call ended (st):
\*   "ok"             it returned;
\*   "assert_failed"  assert!(rep.contains(&p)) failed;
\*   "breakup_node"   fail!("internal error: breakup() on Node");
\*   "no_return"      the call re-entered itself with the same arguments,
\*                    so the recursion never returns (the stack is exhausted).
\* log is bookkeeping of the model: one entry per breakup call made during
\* the call, with the argument of breakup (arg), how breakup ended (st), the
\* value it returned (out) and whether its re-insertion loop called breakup
\* again (nested).
Outcome(t, ret, st) == [t |-> t, ret |-> ret, st |-> st, log |-> {}]

\* the outcome o, with the breakup calls l added to its log
Logged(o, l) == [o EXCEPT !.log = @ \cup l]

RECURSIVE insert(_, _, _), breakup(_, _), reinsert(_, _, _, _)

\* the re-insertion loop stopping one point short
reinsert_short(nd, contents, i, active) ==
    IF i >= Len(contents) THEN Outcome(nd, TRUE, "ok")
    ELSE LET r == insert(nd, contents[i], active)
         IN IF r.st # "ok" THEN Logged(Outcome(nd, FALSE, r.st), r.log)
            ELSE Logged(reinsert(r.t, contents, i + 1, active), r.log)

\* for point in contents.iter() { node.insert(point.clone()); }
\* the returned boolean of each insert is dropped
reinsert(nd, contents, i, active) ==
    IF i > Len(contents) THEN Outcome(nd, TRUE, "ok")
    ELSE LET r == insert(nd, contents[i], active)
         IN IF r.st # "ok" THEN Logged(Outcome(nd, FALSE, r.st), r.log)
            ELSE Logged(reinsert(r.t, contents, i + 1, active), r.log)

\* breakup whose fresh Leaves get a cutoff one too small
breakup_small_children(self, active) ==
    IF self.kind = "Node" THEN Outcome(self, FALSE, "breakup_node")
    ELSE LET bb == split(self.bounding)
             nd == node(self.bounding, Cardinal_new(
                       leaf_empty(bb.nw, self.cutoff - 1), leaf_empty(bb.ne, self.cutoff - 1),
                       leaf_empty(bb.sw, self.cutoff - 1), leaf_empty(bb.se, self.cutoff - 1)),
                       self.cutoff)
         IN reinsert(nd, self.contents, 1, active)

breakup(self, active) ==
    IF self.kind = "Node" THEN Outcome(self, FALSE, "breakup_node")
    ELSE LET bb == split(self.bounding)
             nd == node(self.bounding, Cardinal_new(
                       leaf_empty(bb.nw, self.cutoff), leaf_empty(bb.ne, self.cutoff),
                       leaf_empty(bb.sw, self.cutoff), leaf_empty(bb.se, self.cutoff)),
                       self.cutoff)
         IN reinsert(nd, self.contents, 1, active)

\* insert that tests the north-east child before the north-west one
insert_ne_first(self, p, active) ==
    IF ~QuadTree_contains(self, p) THEN Outcome(self, FALSE, "ok")
    ELSE IF self.kind = "Leaf"
    THEN Outcome([self EXCEPT !.contents = Append(@, p)], TRUE, "ok")
    ELSE LET children == self.children
             sel == IF QuadTree_contains(children.ne, p) THEN "ne"
                    ELSE IF QuadTree_contains(children.nw, p) THEN "nw"
                    ELSE IF QuadTree_contains(children.sw, p) THEN "sw"
                    ELSE "se"
             rep == children[sel]
         IN IF ~QuadTree_contains(rep, p) THEN Outcome(self, FALSE, "assert_failed")
            ELSE IF ~is_full(rep)
            THEN LET r == insert(rep, p, active)
                 IN Logged(Outcome([self EXCEPT !.children[sel] = r.t], TRUE, r.st), r.log)
            ELSE IF <<rep, p>> \in active THEN Outcome(self, FALSE, "no_return")
            ELSE LET act == active \cup {<<rep, p>>}
                     b == breakup(rep, act)
                     call == [arg |-> rep, st |-> b.st, out |-> b.t, nested |-> b.log # {}]
                 IN IF b.st # "ok" THEN Logged(Outcome(self, FALSE, b.st), {call} \cup b.log)
                    ELSE LET r == insert(b.t, p, act)
                         IN Logged(Outcome([self EXCEPT !.children[sel] = r.t], TRUE, r.st),
                                   {call} \cup b.log \cup r.log)

\* active is the set of <<rep, p>> pairs whose "break up rep, then insert p"
\* step is in progress further up the call chain.  insert and breakup are
\* deterministic functions of their arguments, so meeting a pair again means
\* the call can never return.
insert(self, p, active) ==
    IF ~QuadTree_contains(self, p) THEN Outcome(self, FALSE, "ok")
    ELSE IF self.kind = "Leaf"
    THEN Outcome([self EXCEPT !.contents = Append(@, p)], TRUE, "ok")
    ELSE LET children == self.children
             sel == IF QuadTree_contains(children.nw, p) THEN "nw"
                    ELSE IF QuadTree_contains(children.ne, p) THEN "ne"
                    ELSE IF QuadTree_contains(children.sw, p) THEN "sw"
                    ELSE "se"
             rep == children[sel]
         IN IF ~QuadTree_contains(rep, p) THEN Outcome(self, FALSE, "assert_failed")
            ELSE IF ~is_full(rep)
            THEN LET r == insert(rep, p, active)
                 IN Logged(Outcome([self EXCEPT !.children[sel] = r.t], TRUE, r.st), r.log)
            ELSE IF <<rep, p>> \in active THEN Outcome(self, FALSE, "no_return")
            ELSE LET act == active \cup {<<rep, p>>}
                     b == breakup(rep, act)
                     call == [arg |-> rep, st |-> b.st, out |-> b.t, nested |-> b.log # {}]
                 IN IF b.st # "ok" THEN Logged(Outcome(self, FALSE, b.st), {call} \cup b.log)
                    ELSE LET r == insert(b.t, p, act)
                         IN Logged(Outcome([self EXCEPT !.children[sel] = r.t], TRUE, r.st),
                                   {call} \cup b.log \cup r.log)

----------------------------------------------------------------------------
(* State *)

VARIABLES
    tree,       \* the QuadTree owned by the caller
    status,     \* "ok" while the program runs, else how the last insert ended
    ncalls,     \* number of insert calls made so far
    lastp,      \* argument of the last insert call
    ret,        \* value returned by the last insert call
    breakups,   \* the breakup calls made during the last insert call
    hist,       \* ScenSpec: the points inserted so far, in order
    fnop,       \* FnSpec: the function applied last
    fnbox,      \* FnSpec: its AABB argument
    fnpt,       \* FnSpec: its point argument (contains)
    fncut,      \* FnSpec: its cutoff argument (QuadTree::new)
    cres,       \* FnSpec: result of AABB::contains
    sres,       \* FnSpec: result of AABB::split
    nres        \* FnSpec: result of QuadTree::new

treeVars == <<tree, status, ncalls, lastp, ret, breakups, hist>>
fnVars == <<fnop, fnbox, fnpt, fncut, cres, sres, nres>>
vars == <<tree, status, ncalls, lastp, ret, breakups, hist, fnop, fnbox, fnpt, fncut, cres, sres, nres>>

NoBox == AABB_new(0, 0, 0)
NoPoint == [x |-> 0, y |-> 0]

FnIdle ==
    /\ fnop = "none"
    /\ fnbox = NoBox
    /\ fnpt = NoPoint
    /\ fncut = 0
    /\ cres = FALSE
    /\ sres = split(NoBox)
    /\ nres = QuadTree_new(NoBox, 0)

----------------------------------------------------------------------------
(* Spec: a tree and its insert calls *)

Init ==
    /\ \E b \in RootBoxes, c \in Cutoffs : tree = QuadTree_new(b, c)
    /\ status = "ok"
    /\ ncalls = 0
    /\ lastp = NoPoint
    /\ ret = FALSE
    /\ breakups = {}
    /\ hist = << >>
    /\ FnIdle

\* tree.insert(p): the whole call, breakups and re-insertions included.
\* A call that does not return ends the program; the tree is then dropped
\* with the task and the variable keeps the value it had before the call.
Call(p) ==
    /\ status = "ok"
    /\ LET r == insert(tree, p, {})
       IN /\ tree' = IF r.st = "ok" THEN r.t ELSE tree
          /\ ret' = IF r.st = "ok" THEN r.ret ELSE FALSE
          /\ status' = r.st
          /\ breakups' = r.log
    /\ lastp' = p
    /\ ncalls' = ncalls + 1
    /\ UNCHANGED fnVars

Insert(p) ==
    /\ ncalls < MaxInserts
    /\ Call(p)
    /\ UNCHANGED hist

Next == \E p \in Points : Insert(p)

Spec == Init /\ [][Next]_vars

----------------------------------------------------------------------------
(* ScenSpec: the tree and the points of testBasic *)

\* QuadTree::new(AABB::new(0.0, 0.0, 100.0), 4)
ScenSide == 100
ScenCutoff == 4
ScenBox == AABB_new(0, 0, ScenSide)

\* the test inserts (0,0), (1,1), ... up to (ScenLast, ScenLast)
ScenLast == 5
ScenPoints == {[x |-> i, y |-> i] : i \in 0..ScenLast}

\* number of insert calls made on the test's tree
MaxScenInserts == 5

ScenInit ==
    /\ tree = QuadTree_new(ScenBox, ScenCutoff)
    /\ status = "ok"
    /\ ncalls = 0
    /\ lastp = NoPoint
    /\ ret = FALSE
    /\ breakups = {}
    /\ hist = << >>
    /\ FnIdle

\* tree.insert(p) on the test's tree; the test's points are offered in any
\* order and hist records the order taken
ScenInsert(p) ==
    /\ ncalls < MaxScenInserts
    /\ Call(p)
    /\ hist' = Append(hist, p)

ScenNext == \E p \in ScenPoints : ScenInsert(p)

ScenSpec == ScenInit /\ [][ScenNext]_vars

----------------------------------------------------------------------------
(* FnSpec: the pure functions on bounded inputs *)

TreeIdle ==
    /\ tree = QuadTree_new(NoBox, 0)
    /\ status = "ok"
    /\ ncalls = 0
    /\ lastp = NoPoint
    /\ ret = FALSE
    /\ breakups = {}
    /\ hist = << >>

\* The arguments are drawn here; each action applies one function to them.
FnInit ==
    /\ TreeIdle
    /\ fnop = "none"
    /\ fnbox \in FnBoxes
    /\ fnpt \in FnPoints
    /\ fncut \in Cutoffs
    /\ cres = FALSE
    /\ sres = split(NoBox)
    /\ nres = QuadTree_new(NoBox, 0)

\* cres = fnbox.contains(&fnpt)
ApplyContains ==
    /\ fnop = "none"
    /\ fnop' = "contains"
    /\ cres' = AABB_contains(fnbox, fnpt)
    /\ UNCHANGED <<fnbox, fnpt, fncut, sres, nres>>
    /\ UNCHANGED treeVars

\* sres = fnbox.split()
ApplySplit ==
    /\ fnop = "none"
    /\ fnop' = "split"
    /\ sres' = split(fnbox)
    /\ UNCHANGED <<fnbox, fnpt, fncut, cres, nres>>
    /\ UNCHANGED treeVars

\* nres = QuadTree::new(fnbox, fncut)
ApplyNew ==
    /\ fnop = "none"
    /\ fnop' = "new"
    /\ nres' = QuadTree_new(fnbox, fncut)
    /\ UNCHANGED <<fnbox, fnpt, fncut, cres, sres>>
    /\ UNCHANGED treeVars

FnNext ==
    \/ ApplyContains
    \/ ApplySplit
    \/ ApplyNew

FnSpec == FnInit /\ [][FnNext]_vars

----------------------------------------------------------------------------
(* Vocabulary of the properties *)

\* p lies in the closed square [b.x, b.x + b.w] x [b.y, b.y + b.w]
Inside(b, p) ==
    /\ b.x <= p.x
    /\ p.x <= b.x + b.w
    /\ b.y <= p.y
    /\ p.y <= b.y + b.w

RECURSIVE SubtreesOf(_)
\* every node of the tree t, t included
SubtreesOf(t) ==
    IF t.kind = "Leaf" THEN {t}
    ELSE {t} \cup UNION {SubtreesOf(t.children[g]) : g \in Tags}

LeavesOf(t) == {n \in SubtreesOf(t) : n.kind = "Leaf"}
InteriorsOf(t) == {n \in SubtreesOf(t) : n.kind = "Node"}

\* the Interiors below the root, i.e. those made by breakup
BrokenUp(t) == InteriorsOf(t) \ {t}

\* number of occurrences of q in the sequence s
RECURSIVE OccurrencesIn(_, _)
OccurrencesIn(s, q) ==
    IF s = << >> THEN 0
    ELSE (IF Head(s) = q THEN 1 ELSE 0) + OccurrencesIn(Tail(s), q)

\* number of copies of q stored in the leaves of t
RECURSIVE CountOf(_, _)
CountOf(t, q) ==
    IF t.kind = "Leaf" THEN OccurrencesIn(t.contents, q)
    ELSE CountOf(t.children.nw, q) + CountOf(t.children.ne, q)
         + CountOf(t.children.sw, q) + CountOf(t.children.se, q)

\* an insert call has been made and it returned
Returned == ncalls > 0 /\ status = "ok"

----------------------------------------------------------------------------
(* Properties of Spec *)

\* C1 - Capacity invariant: in a tree built with cutoff >= 1, after any
\* sequence of insert calls every Leaf holds at most cutoff points, and an
\* Interior has four children and no point buffer of its own.
CapacityInvariant ==
    tree.cutoff >= 1 =>
        \A n \in SubtreesOf(tree) :
            /\ n.cutoff = tree.cutoff
            /\ n.kind = "Leaf" => Len(n.contents) <= tree.cutoff
            /\ n.kind = "Node" => DOMAIN n = {"kind", "bounding", "children", "cutoff"}

\* a breakup has happened and some Leaf is filled to the brim
CapacityWitness ==
    /\ Returned
    /\ tree.cutoff >= 1
    /\ BrokenUp(tree) # {}
    /\ \E n \in LeavesOf(tree) : Len(n.contents) = tree.cutoff

\* the tree is one the interface documents: a region of positive side and a
\* positive cutoff
Documented == tree.bounding.w > 0 /\ tree.cutoff >= 1

\* C2 - Insertion acceptance: insert(p) of a point inside the root's region
\* returns true; it neither returns false nor fails the assertion that the
\* selected child contains p.  (Stated for documented trees only, which is
\* all the refutation needs.)
InsertionAccepted ==
    (Documented /\ ncalls > 0 /\ Inside(tree.bounding, lastp)) =>
        /\ status # "assert_failed"
        /\ status = "ok" => ret = TRUE

\* C3 - Termination: with cutoff >= 1 every insert call runs to completion,
\* also when its point equals points already stored.  (Stated for documented
\* trees only, which is all the refutation needs.)
InsertTerminates ==
    Documented => status # "no_return"

\* C4 - Out-of-bounds insertion: if the root's region does not contain p,
\* insert(p) returns false and leaves the whole tree as it was.
OutOfBoundsRejected ==
    [][(ncalls' = ncalls + 1 /\ ~Inside(tree.bounding, lastp')) =>
          (status' = "ok" /\ ret' = FALSE /\ tree' = tree)]_vars

\* an out-of-bounds point was offered to a tree that already holds points
OutOfBoundsWitness ==
    /\ Returned
    /\ ~Inside(tree.bounding, lastp)
    /\ ret = FALSE
    /\ \E n \in LeavesOf(tree) : n.contents # << >>

\* C5 - Points are preserved: an insert(p) that returns true adds exactly one
\* copy of p to the multiset of stored points and changes nothing else in it,
\* breakups included.
PointsPreserved ==
    [][(ncalls' = ncalls + 1 /\ status' = "ok" /\ ret' = TRUE) =>
          \A q \in Points :
              CountOf(tree', q) = CountOf(tree, q) + (IF q = lastp' THEN 1 ELSE 0)]_vars

\* an accepted insert went through two nested breakups
PointsPreservedWitness ==
    /\ Returned
    /\ ret = TRUE
    /\ \E n \in BrokenUp(tree) : BrokenUp(n) # {}

\* C6 (as stated) - Tiling: every point of an Interior's region lies in
\* exactly one of its four children's regions.
TilingExact ==
    \A n \in InteriorsOf(tree) : \A p \in Points :
        Inside(n.bounding, p) =>
            Cardinality({g \in Tags : Inside(n.children[g].bounding, p)}) = 1

\* C6 (amended) - for an Interior of side w >= 0, the four children's
\* regions cover exactly the points of the Interior's region whose
\* coordinates are at most x + 2*(w/2) and
\* y + 2*(w/2), where w/2 is the truncated half side: all of the region when
\* w is even, all but its last row and column when w is odd.  A point is in
\* two or more children exactly when it lies on an inner edge x + w/2 or
\* y + w/2.
TilingCover ==
    \A n \in InteriorsOf(tree) :
        LET b == n.bounding
            h == b.w \div 2
        IN b.w >= 0 => \A p \in Points :
              LET holders == {g \in Tags : Inside(n.children[g].bounding, p)}
              IN /\ holders # {} <=>
                        (Inside(b, p) /\ p.x <= b.x + 2 * h /\ p.y <= b.y + 2 * h)
                 /\ Cardinality(holders) >= 2 <=>
                        (holders # {} /\ (p.x = b.x + h \/ p.y = b.y + h))

\* a tree with a broken-up region of odd side and one of even side
TilingWitness ==
    /\ Returned
    /\ \E n \in BrokenUp(tree) : n.bounding.w % 2 = 1
    /\ \E n \in InteriorsOf(tree) : n.bounding.w % 2 = 0 /\ n.bounding.w > 0

RECURSIVE Persists(_, _)
\* t2 is t after one step: Interiors stay Interiors over the same region, and
\* a Leaf is an Interior afterwards only if it was full, over the same region
Persists(t, t2) ==
    IF t.kind = "Node"
    THEN /\ t2.kind = "Node"
         /\ t2.bounding = t.bounding
         /\ \A g \in Tags : Persists(t.children[g], t2.children[g])
    ELSE t2.kind = "Node" =>
            /\ Len(t.contents) = t.cutoff
            /\ t2.bounding = t.bounding

\* C7 - Node state machine is monotone: the root is an Interior in every
\* state; a position holding an Interior holds an Interior with the same
\* region ever after; a Leaf turns into an Interior only by the breakup of a
\* full Leaf.
NodesMonotone ==
    /\ [](tree.kind = "Node")
    /\ [][Persists(tree, tree')]_vars

\* a Leaf has been replaced by an Interior, below an Interior that was
\* itself made by breakup
NodesMonotoneWitness ==
    /\ Returned
    /\ ncalls >= 2
    /\ \E n \in BrokenUp(tree) : BrokenUp(n) # {}

\* the child of the Interior n that the point q is due in: the first of nw,
\* ne, sw whose region holds q, and se if none of the three does
FirstHolder(n, q) ==
    IF Inside(n.children.nw.bounding, q) THEN "nw"
    ELSE IF Inside(n.children.ne.bounding, q) THEN "ne"
    ELSE IF Inside(n.children.sw.bounding, q) THEN "sw"
    ELSE "se"

RECURSIVE Delegated(_, _, _)
\* t2 is the Interior t after an accepted insert(p): p went to the child due
\* and the other three children are as they were; likewise further down
Delegated(t, t2, p) ==
    LET g == FirstHolder(t, p)
    IN /\ \A h \in Tags \ {g} : t2.children[h] = t.children[h]
       /\ CountOf(t2.children[g], p) = CountOf(t.children[g], p) + 1
       /\ t.children[g].kind = "Node" => Delegated(t.children[g], t2.children[g], p)

\* every point stored below an Interior sits under the child it is due in
StoredInFirstHolder ==
    \A n \in InteriorsOf(tree) : \A g \in Tags : \A q \in Points :
        CountOf(n.children[g], q) > 0 => g = FirstHolder(n, q)

\* C13 - Routing precedence: an Interior whose region contains p hands p to
\* exactly one child, the first of nw, ne, sw whose region contains p and se
\* if none does; a point on an edge shared by several children is stored only
\* in the earliest of them, never in two.
RoutingPrecedence ==
    /\ []StoredInFirstHolder
    /\ [][(ncalls' = ncalls + 1 /\ status' = "ok" /\ ret' = TRUE) =>
             Delegated(tree, tree', lastp')]_vars

\* a point lying in the regions of several children of an Interior made by
\* breakup has been stored
RoutingWitness ==
    /\ Returned
    /\ ret = TRUE
    /\ \E n \in BrokenUp(tree) :
          /\ CountOf(n, lastp) > 0
          /\ Cardinality({g \in Tags : Inside(n.children[g].bounding, lastp)}) >= 2

\* C14 - Breakup is only ever invoked on a full Leaf: no insert call makes
\* breakup fail with "breakup() on Node", and every breakup call receives a
\* Leaf holding exactly cutoff points.
BreakupOnFullLeaf ==
    /\ status # "breakup_node"
    /\ \A c \in breakups :
          /\ c.arg.kind = "Leaf"
          /\ Len(c.arg.contents) = c.arg.cutoff
          /\ c.st # "breakup_node"

\* one insert call made two breakup calls, the second on a child of the
\* Interior the first one built
BreakupWitness ==
    /\ Returned
    /\ tree.cutoff >= 1
    /\ \E c, d \in breakups : \E g \in Tags : c.st = "ok" /\ d.arg = c.out.children[g]

\* C15 - Single-level breakup does not recurse: for cutoff >= 1, breakup of
\* a Leaf holding exactly cutoff points calls no further breakup while it
\* re-inserts them; the Interior it returns has four Leaf children that hold
\* together exactly the old Leaf's points, none more than cutoff.
BreakupSingleLevel ==
    \A c \in breakups :
        (c.arg.kind = "Leaf" /\ c.arg.cutoff >= 1 /\ Len(c.arg.contents) = c.arg.cutoff) =>
            /\ ~c.nested
            /\ c.st = "ok" =>
                  /\ c.out.kind = "Node"
                  /\ c.out.bounding = c.arg.bounding
                  /\ \A g \in Tags :
                        /\ c.out.children[g].kind = "Leaf"
                        /\ Len(c.out.children[g].contents) <= c.arg.cutoff
                  /\ \A q \in Points :
                        CountOf(c.out, q) = OccurrencesIn(c.arg.contents, q)

\* a Leaf holding two points was broken up and the two points went to
\* different children
BreakupSingleLevelWitness ==
    /\ Returned
    /\ \E c \in breakups :
          /\ c.st = "ok"
          /\ c.arg.cutoff = 2
          /\ ~c.nested
          /\ \E g \in Tags : Len(c.out.children[g].contents) = 1

RECURSIVE Belongs(_, _)
\* every point buffered in a Leaf of t lies in that Leaf's region, in the
\* region of every Interior of t above it and in every region of outer
Belongs(t, outer) ==
    IF t.kind = "Leaf"
    THEN \A i \in 1..Len(t.contents) :
            \A b \in outer \cup {t.bounding} : Inside(b, t.contents[i])
    ELSE \A g \in Tags : Belongs(t.children[g], outer \cup {t.bounding})

\* C18 - Points are stored where they belong: every point in a Leaf's buffer
\* is contained in that Leaf's region and in the region of every ancestor
\* Interior up to the root.
PointsBelong == Belongs(tree, {})

\* a point is stored three levels below the root
PointsBelongWitness ==
    /\ Returned
    /\ \E n \in BrokenUp(tree) : \E m \in BrokenUp(n) :
          \E l \in LeavesOf(m) : l.contents # << >>

RECURSIVE SizeOf(_)
\* number of points stored in the leaves of t
SizeOf(t) ==
    IF t.kind = "Leaf" THEN Len(t.contents)
    ELSE SizeOf(t.children.nw) + SizeOf(t.children.ne)
         + SizeOf(t.children.sw) + SizeOf(t.children.se)

\* C19 - No underpopulated splits: after every completed insert call, each
\* Interior other than the root holds at least cutoff + 1 points in the
\* leaves of its subtree.
NoUnderpopulatedSplit ==
    \A n \in BrokenUp(tree) : SizeOf(n) >= tree.cutoff + 1

\* a breakup has happened in a tree of cutoff 2, leaving an Interior with
\* exactly 3 points
NoUnderpopulatedWitness ==
    /\ Returned
    /\ tree.cutoff = 2
    /\ \E n \in BrokenUp(tree) : SizeOf(n) = 3

----------------------------------------------------------------------------
(* Properties of FnSpec *)

\* C8 - Containment is inclusive on all four edges: contains is true exactly
\* when x <= p.x <= x+w and y <= p.y <= y+w; points on an edge of a region
\* are contained, points one unit beyond an edge are not.
ContainsInclusive ==
    fnop = "contains" =>
        LET b == fnbox
            p == fnpt
        IN /\ cres <=> (b.x <= p.x /\ p.x <= b.x + b.w /\ b.y <= p.y /\ p.y <= b.y + b.w)
           /\ (b.w >= 0 /\ p.x \in {b.x, b.x + b.w} /\ p.y \in b.y..(b.y + b.w)) => cres
           /\ (b.w >= 0 /\ p.y \in {b.y, b.y + b.w} /\ p.x \in b.x..(b.x + b.w)) => cres
           /\ (p.x = b.x - 1 \/ p.x = b.x + b.w + 1) => ~cres
           /\ (p.y = b.y - 1 \/ p.y = b.y + b.w + 1) => ~cres

\* contains was applied to the far corner of a region with a positive side
ContainsWitness ==
    /\ fnop = "contains"
    /\ fnbox.w > 0
    /\ fnpt.x = fnbox.x + fnbox.w
    /\ fnpt.y = fnbox.y + fnbox.w
    /\ cres

\* C9 - Split result: split of the region (x, y, w) gives four regions of
\* side w/2 (truncated), sw at (x, y), nw at (x, y + w/2), se at (x + w/2, y)
\* and ne at (x + w/2, y + w/2), each in the slot of its own tag.
SplitResult ==
    fnop = "split" =>
        LET x == fnbox.x
            y == fnbox.y
            w == fnbox.w
            h == sres.sw.w
        IN /\ DOMAIN sres = Tags
           /\ \/ 2 * h = w
              \/ w > 0 /\ 2 * h = w - 1
              \/ w < 0 /\ 2 * h = w + 1
           /\ sres.sw = [x |-> x,     y |-> y,     w |-> h]
           /\ sres.nw = [x |-> x,     y |-> y + h, w |-> h]
           /\ sres.se = [x |-> x + h, y |-> y,     w |-> h]
           /\ sres.ne = [x |-> x + h, y |-> y + h, w |-> h]

\* split was applied to a region with a side of at least 2
SplitWitness ==
    /\ fnop = "split"
    /\ fnbox.w >= 2
    /\ sres.ne.x > fnbox.x

\* C10 - Construction: QuadTree::new(region, cutoff) is an Interior over
\* region with the given cutoff whose nw, ne, sw, se children are empty
\* Leaves over the matching quadrants of split(region), with the same cutoff.
ConstructionShape ==
    fnop = "new" =>
        /\ nres.kind = "Node"
        /\ nres.bounding = fnbox
        /\ nres.cutoff = fncut
        /\ DOMAIN nres.children = Tags
        /\ \A g \in Tags :
              LET c == nres.children[g]
              IN /\ c.kind = "Leaf"
                 /\ c.contents = << >>
                 /\ c.cutoff = fncut
                 /\ c.bounding = split(fnbox)[g]

\* a tree was constructed over a region with distinct quadrants
ConstructionWitness ==
    /\ fnop = "new"
    /\ fncut >= 1
    /\ fnbox.w >= 2

\* C16 (as stated) - a region whose side is zero or negative contains no
\* point.
NonPositiveSideEmpty ==
    (fnop = "contains" /\ fnbox.w <= 0) => ~cres

\* C16 (amended) - a region whose side is negative contains no point; a
\* region whose side is zero contains exactly one point, its origin (x, y).
NonPositiveSide ==
    fnop = "contains" =>
        /\ fnbox.w < 0 => ~cres
        /\ fnbox.w = 0 => (cres <=> (fnpt.x = fnbox.x /\ fnpt.y = fnbox.y))

\* contains was applied to a region of side zero and its origin
NonPositiveSideWitness ==
    /\ fnop = "contains"
    /\ fnbox.w = 0
    /\ fnpt.x = fnbox.x
    /\ fnpt.y = fnbox.y
    /\ cres

\* the lowest and the highest coordinate the four quadrants of sres reach
\* on the x axis and on the y axis
QuadLowX == CHOOSE v \in {sres[g].x : g \in Tags} : \A g \in Tags : v <= sres[g].x
QuadHighX == CHOOSE v \in {sres[g].x + sres[g].w : g \in Tags} :
                 \A g \in Tags : v >= sres[g].x + sres[g].w
QuadLowY == CHOOSE v \in {sres[g].y : g \in Tags} : \A g \in Tags : v <= sres[g].y
QuadHighY == CHOOSE v \in {sres[g].y + sres[g].w : g \in Tags} :
                 \A g \in Tags : v >= sres[g].y + sres[g].w

\* C17 - Integer truncation on odd sides: for an odd side w >= 1, split uses
\* half = floor(w/2) and the four quadrants together span exactly
\* [x, x+w-1] on each axis, one unit short of the parent's [x, x+w].
OddSideTruncation ==
    (fnop = "split" /\ fnbox.w >= 1 /\ fnbox.w % 2 = 1) =>
        /\ \A g \in Tags : 2 * sres[g].w = fnbox.w - 1
        /\ QuadLowX = fnbox.x
        /\ QuadHighX = fnbox.x + fnbox.w - 1
        /\ QuadLowY = fnbox.y
        /\ QuadHighY = fnbox.y + fnbox.w - 1

\* split was applied to a region of odd side 3 or more
OddSideWitness ==
    /\ fnop = "split"
    /\ fnbox.w >= 3
    /\ fnbox.w % 2 = 1
    /\ QuadHighX = fnbox.x + fnbox.w - 1

----------------------------------------------------------------------------
(* Properties of ScenSpec *)

Pt(x, y) == [x |-> x, y |-> y]
Box(x, y, w) == [x |-> x, y |-> y, w |-> w]

First4 == <<Pt(0, 0), Pt(1, 1), Pt(2, 2), Pt(3, 3)>>
First5 == <<Pt(0, 0), Pt(1, 1), Pt(2, 2), Pt(3, 3), Pt(4, 4)>>

\* t is a Leaf over the region b that holds no point
EmptyLeafOver(t, b) == t.kind = "Leaf" /\ t.bounding = b /\ t.contents = << >>

\* C11 - Scenario, first four inserts: on new(AABB(0,0,100), 4), after
\* inserting (0,0), (1,1), (2,2), (3,3) in that order the root's south-west
\* child is still a Leaf and holds exactly these four points; the other
\* three root children are empty Leaves.
ScenFirstFour ==
    hist = First4 =>
        /\ status = "ok"
        /\ ret = TRUE
        /\ tree.kind = "Node"
        /\ tree.children.sw.kind = "Leaf"
        /\ tree.children.sw.bounding = Box(0, 0, 50)
        /\ tree.children.sw.contents = First4
        /\ Len(tree.children.sw.contents) = 4
        /\ EmptyLeafOver(tree.children.nw, Box(0, 50, 50))
        /\ EmptyLeafOver(tree.children.ne, Box(50, 50, 50))
        /\ EmptyLeafOver(tree.children.se, Box(50, 0, 50))

\* the four inserts of the scenario have been made
ScenFirstFourWitness ==
    /\ hist = First4
    /\ ncalls = 4
    /\ status = "ok"

\* the full Leaf of the scenario was broken up into quadrants of side 25
ScenQuadrants(n) ==
    /\ n.kind = "Node"
    /\ n.bounding = Box(0, 0, 50)
    /\ n.children.sw.bounding = Box(0, 0, 25)
    /\ n.children.nw.bounding = Box(0, 25, 25)
    /\ n.children.se.bounding = Box(25, 0, 25)
    /\ n.children.ne.bounding = Box(25, 25, 25)

\* breakup was called on a Leaf over b holding First4, and returned
BrokeUpFull(b) ==
    \E c \in breakups :
        /\ c.arg.kind = "Leaf"
        /\ c.arg.bounding = b
        /\ c.arg.contents = First4
        /\ c.st = "ok"

\* C12 (as stated) - Scenario, fifth insert: inserting (4,4) breaks the full
\* leaf up into quadrants of side 25 at (0,0), (0,25), (25,0), (25,25); the
\* four buffered points are re-inserted into the north-west child, which
\* reaches 4 points and is itself broken up when (4,4) is inserted.
ScenFifthInsertNorthWest ==
    hist = First5 =>
        /\ status = "ok"
        /\ ScenQuadrants(tree.children.sw)
        /\ BrokeUpFull(Box(0, 0, 50))
        /\ BrokeUpFull(Box(0, 25, 25))
        /\ tree.children.sw.children.nw.kind = "Node"

\* C12 (amended) - the same with the south-west child in place of the
\* north-west one: the four buffered points are re-inserted into the
\* south-west quadrant (0,0,25), which reaches 4 points and is itself broken
\* up when (4,4) is inserted; the north-west, north-east and south-east
\* quadrants stay empty Leaves.
ScenFifthInsert ==
    hist = First5 =>
        /\ status = "ok"
        /\ ret = TRUE
        /\ ScenQuadrants(tree.children.sw)
        /\ BrokeUpFull(Box(0, 0, 50))
        /\ \E c \in breakups :
              /\ c.arg = leaf(Box(0, 0, 50), First4, 4)
              /\ c.out.children.sw = leaf(Box(0, 0, 25), First4, 4)
        /\ BrokeUpFull(Box(0, 0, 25))
        /\ tree.children.sw.children.sw.kind = "Node"
        /\ EmptyLeafOver(tree.children.sw.children.nw, Box(0, 25, 25))
        /\ EmptyLeafOver(tree.children.sw.children.ne, Box(25, 25, 25))
        /\ EmptyLeafOver(tree.children.sw.children.se, Box(25, 0, 25))
        /\ \A q \in ScenPoints :
              CountOf(tree.children.sw.children.sw, q) = (IF q.x <= 4 THEN 1 ELSE 0)

\* the five inserts of the scenario have been made
ScenFifthInsertWitness ==
    /\ hist = First5
    /\ ncalls = 5
    /\ status = "ok"
    /\ breakups # {}

====
